---- MODULE Spec2Model ----
(***************************************************************************)
(* Model of the apex-legend-detector: the detector (detector.py) and the   *)
(* two task orchestrators, process_task (worker.py) and                    *)
(* process_video_screenshots (tasks.py), over a key-value store with       *)
(* SETEX and INCR.                                                         *)
(*                                                                         *)
(* Confidences are integers in hundredths (0.44 is 44).  CompletedAt is    *)
(* a logical clock that advances by one per processing.                    *)
(***************************************************************************)
EXTENDS Integers, Sequences, FiniteSets, TLC

\* ---------------------------------------------------------------- bounds
MaxUrls == 2
MaxRuns == 2
MaxQueue == 2

\* ------------------------------------------------------ program constants
target_height == 1080
target_width == 1920
RegionX == 90
RegionY == 955
RegionW == 77
RegionH == 66
DefaultMinConfidence == 44
TtlCompleted == 604800
TtlFailed == 86400

\* ------------------------------------------------------------ input sets
None == [none |-> TRUE]
Pending == [pending |-> TRUE]
\* An exception, by where it was raised; str(e) is its message
Exception(origin) == [exception |-> origin]

\* The URL of the i-th screenshot of a request
Url(i) == <<"http://shots", i>>
TaskIds == {"t1"}
ClipIds == {"c1"}
Entries == {"worker", "celery"}
FetchOutcomes == {"ok", "timeout", "http_error", "decode_error"}
\* <<width, height>> of a decoded image
ImageSizes == {<<1920, 1080>>, <<1280, 720>>, <<3840, 2160>>, <<4000, 1000>>}
Scores == {-10, 0, 30, 60}
MinConfidences == {0, DefaultMinConfidence}
Libraries == {<<>>, <<"wraith", "bangalore">>}
CharacterNames == {"wraith", "bangalore"}

\* The requests' screenshot_urls: up to MaxUrls URLs
UrlLists == {[i \in 1..n |-> Url(i)] : n \in 0..MaxUrls}

\* ===================================================================
\* detector.py
\* ===================================================================

\* download_image: the decoded image (its size), or None on a timeout, a
\* non-200 status, a decode failure or any other exception.
download_image(fetch, size) ==
    IF fetch = "ok" THEN [width |-> size[1], height |-> size[2]] ELSE None

\* ---- Python float arithmetic (IEEE 754 binary64, round to nearest even).
\* A positive float is [bits, exp]: the significand as a sequence of bits,
\* the most significant first and equal to 1, and the value bits * 2^exp.
\* Long division and multiplication go by limbs of LimbBits bits.
MantissaBits == 53
LimbBits == 13
Limb == 2^LimbBits

IsException(v) == "exception" \in DOMAIN v

RECURSIVE BitsToNat(_)
BitsToNat(bits) ==
    IF bits = <<>> THEN 0
    ELSE 2 * BitsToNat(SubSeq(bits, 1, Len(bits) - 1)) + bits[Len(bits)]

\* The bits of a sequence of limbs
LimbsToBits(limbs) ==
    [i \in 1..(LimbBits * Len(limbs)) |->
        (limbs[((i - 1) \div LimbBits) + 1]
            \div 2^(LimbBits - 1 - ((i - 1) % LimbBits))) % 2]

\* The limbs of a sequence of bits, zeros added in front to fill the first
BitsToLimbs(bits) ==
    LET pad == (LimbBits - (Len(bits) % LimbBits)) % LimbBits
        padded == [i \in 1..pad |-> 0] \o bits
    IN [k \in 1..(Len(padded) \div LimbBits) |->
           BitsToNat(SubSeq(padded, (k - 1) * LimbBits + 1, k * LimbBits))]

\* bits without its leading zeros
StripZeros(bits) ==
    IF \A i \in 1..Len(bits) : bits[i] = 0 THEN <<>>
    ELSE SubSeq(bits,
                CHOOSE i \in 1..Len(bits) :
                    bits[i] = 1 /\ \A j \in 1..(i - 1) : bits[j] = 0,
                Len(bits))

\* bits + 1
RECURSIVE Increment(_)
Increment(bits) ==
    IF bits = <<>> THEN <<1>>
    ELSE IF bits[Len(bits)] = 0 THEN [bits EXCEPT ![Len(bits)] = 1]
    ELSE Append(Increment(SubSeq(bits, 1, Len(bits) - 1)), 0)

\* The exact value bits (+ something below its last bit when sticky) rounded
\* to MantissaBits significant bits; dropped counts the low bits given up.
RoundBits(bits, sticky) ==
    LET n == Len(bits)
    IN IF n <= MantissaBits THEN [bits |-> bits, dropped |-> 0]
       ELSE LET kept == SubSeq(bits, 1, MantissaBits)
                guard == bits[MantissaBits + 1]
                rest == sticky \/ \E i \in (MantissaBits + 2)..n : bits[i] = 1
                up == guard = 1 /\ (rest \/ kept[MantissaBits] = 1)
            IN [bits |-> IF up THEN Increment(kept) ELSE kept,
                dropped |-> n - MantissaBits]

\* The zero bits that open the binary expansion of r / d (0 < r < d)
RECURSIVE SkipZeros(_, _, _)
SkipZeros(r, d, z) ==
    IF 2 * r >= d THEN [zeros |-> z, rem |-> r] ELSE SkipZeros(2 * r, d, z + 1)

\* The next n limbs of the binary expansion of r / d, by long division
RECURSIVE DivLimbs(_, _, _, _)
DivLimbs(r, d, n, acc) ==
    IF n = 0 THEN [limbs |-> acc, rem |-> r]
    ELSE DivLimbs((r * Limb) % d, d, n - 1, Append(acc, (r * Limb) \div d))

\* a / b of two ints 0 < a < b: the correctly rounded quotient
float_div(a, b) ==
    LET s == SkipZeros(a, b, 0)
        n == (MantissaBits + 1) \div LimbBits + 1
        q == DivLimbs(s.rem, b, n, <<>>)
        r == RoundBits(LimbsToBits(q.limbs), q.rem # 0)
    IN [bits |-> r.bits, exp |-> r.dropped - (s.zeros + n * LimbBits)]

\* limbs * n, from the least significant limb with a carry
RECURSIVE MulLimbs(_, _, _, _, _)
MulLimbs(limbs, i, n, carry, acc) ==
    IF i = 0 THEN <<carry>> \o acc
    ELSE MulLimbs(limbs, i - 1, n, (n * limbs[i] + carry) \div Limb,
                  <<(n * limbs[i] + carry) % Limb>> \o acc)

\* n * x of an int n > 0 and a float x: the correctly rounded product
float_mul(n, x) ==
    LET limbs == BitsToLimbs(x.bits)
        product == MulLimbs(limbs, Len(limbs), n, 0, <<>>)
        r == RoundBits(StripZeros(LimbsToBits(product)), FALSE)
    IN [bits |-> r.bits, exp |-> x.exp + r.dropped]

\* int(x): truncation
float_int(x) ==
    LET keep == Len(x.bits) + x.exp
    IN IF keep <= 0 THEN 0 ELSE BitsToNat(SubSeq(x.bits, 1, keep))

\* resize_to_1080p: unchanged within 1920x1080, else both sides multiplied
\* by min(scale_h, scale_w) and truncated.  Past the early return one side
\* is beyond its target, so the minimum is below 1; the smaller quotient is
\* found by cross-multiplication (rounding is monotonic).  cv2.resize raises
\* on an empty target size.
resize_to_1080p(image) ==
    LET height == image.height
        width == image.width
        scale == IF target_height * width <= target_width * height
                 THEN float_div(target_height, height)
                 ELSE float_div(target_width, width)
        new_width == float_int(float_mul(width, scale))
        new_height == float_int(float_mul(height, scale))
    IN IF height <= target_height /\ width <= target_width
       THEN image
       ELSE IF new_width = 0 \/ new_height = 0 THEN Exception("cv2.resize")
       ELSE [width |-> new_width, height |-> new_height]

\* The images resize_to_1080p is applied to on its own
ResizeWidths == {1, 1921, 2185, 2560, 2736, 3440, 4096} \cup {z[1] : z \in ImageSizes}
ResizeHeights == {1, 1081, 1200, 1440, 1824, 3000} \cup {z[2] : z \in ImageSizes}
ResizeSizes == ResizeWidths \X ResizeHeights

\* resize_to_1080p of every image in use, computed once: Resized[width][height]
OneOf(S) == CHOOSE x \in S : TRUE
RECURSIVE ResizedRow(_, _)
ResizedRow(width, heights) ==
    IF heights = {} THEN <<>>
    ELSE (OneOf(heights) :> resize_to_1080p([width |-> width, height |-> OneOf(heights)]))
             @@ ResizedRow(width, heights \ {OneOf(heights)})
RECURSIVE ResizedRows(_, _)
ResizedRows(widths, heights) ==
    IF widths = {} THEN <<>>
    ELSE (OneOf(widths) :> ResizedRow(OneOf(widths), heights))
             @@ ResizedRows(widths \ {OneOf(widths)}, heights)
Resized == ResizedRows(ResizeWidths, ResizeHeights)

\* extract_portrait_from_image: TRUE when the crop is taken, FALSE when the
\* ValueError "Image dimensions too small" is raised.
extract_portrait_from_image(image) ==
    ~(image.height < RegionY + RegionH \/ image.width < RegionX + RegionW)

\* The resize and the crop of process_screenshot_url: TRUE when a portrait is
\* obtained, FALSE when either raises (the handler returns None).
ResizeAndCrop(image) ==
    LET resized == Resized[image.width][image.height]
    IN IF IsException(resized) THEN FALSE ELSE extract_portrait_from_image(resized)

\* The loop of process_screenshot_url over reference_portraits, in the
\* dictionary's order, from position i with the state (best_match,
\* highest_confidence).
RECURSIVE ChampionLoop(_, _, _, _, _, _)
ChampionLoop(refs, scores, url, i, best_match, highest_confidence) ==
    IF i > Len(refs) THEN [best_match |-> best_match,
                           highest_confidence |-> highest_confidence]
    ELSE LET char_name == refs[i]
             confidence == scores[char_name]
         IN IF confidence > highest_confidence
            THEN ChampionLoop(refs, scores, url, i + 1,
                              [character_name |-> char_name,
                               confidence |-> confidence,
                               url |-> url],
                              confidence)
            ELSE ChampionLoop(refs, scores, url, i + 1, best_match, highest_confidence)

\* TRUE when the pipeline of one URL ends in one of its error paths
\* (download failure or undersized image), FALSE when it reaches scoring.
PipelineFails(fetch, size) ==
    LET image == download_image(fetch, size)
    IN IF image = None THEN TRUE
       ELSE ~ResizeAndCrop(image)

\* Variant of process_screenshot_url that forgets the minimum-confidence floor
process_screenshot_url_NoFloor(refs, min_confidence, url, fetch, size, scores) ==
    LET image == download_image(fetch, size)
    IN IF image = None THEN None
       ELSE IF ~ResizeAndCrop(image) THEN None
       ELSE ChampionLoop(refs, scores, url, 1, None, 0).best_match

\* process_screenshot_url: the per-URL champion, or None.
process_screenshot_url(refs, min_confidence, url, fetch, size, scores) ==
    LET image == download_image(fetch, size)
    IN IF image = None THEN None
       ELSE IF ~ResizeAndCrop(image) THEN None
       ELSE LET c == ChampionLoop(refs, scores, url, 1, None, 0)
            IN IF c.highest_confidence >= min_confidence THEN c.best_match ELSE None

\* Variant of the reduction loop that compares with >= (the last of a tie wins)
RECURSIVE ReduceLoop_LastWins(_, _, _, _, _)
ReduceLoop_LastWins(results, i, best_overall, highest_confidence, best_index) ==
    IF i > Len(results) THEN [best_overall |-> best_overall, best_index |-> best_index]
    ELSE LET r == results[i]
         IN IF r # None /\ r.confidence >= highest_confidence
            THEN ReduceLoop_LastWins(results, i + 1, r, r.confidence, i - 1)
            ELSE ReduceLoop_LastWins(results, i + 1, best_overall, highest_confidence,
                                     best_index)

\* The reduction loop of process_multiple_screenshots over the gathered
\* results (0-based idx is position - 1).
RECURSIVE ReduceLoop(_, _, _, _, _)
ReduceLoop(results, i, best_overall, highest_confidence, best_index) ==
    IF i > Len(results) THEN [best_overall |-> best_overall, best_index |-> best_index]
    ELSE LET r == results[i]
         IN IF r # None /\ r.confidence > highest_confidence
            THEN ReduceLoop(results, i + 1, r, r.confidence, i - 1)
            ELSE ReduceLoop(results, i + 1, best_overall, highest_confidence, best_index)

\* Variant of process_multiple_screenshots in which one URL without a result
\* aborts the batch
process_multiple_screenshots_Abort(results) ==
    LET red == ReduceLoop(results, 1, None, 0, -1)
    IN IF red.best_overall # None /\ \A i \in 1..Len(results) : results[i] # None
       THEN [character_name |-> red.best_overall.character_name,
             confidence |-> red.best_overall.confidence,
             url |-> red.best_overall.url,
             screenshot_index |-> red.best_index]
       ELSE None

\* Variant of process_multiple_screenshots whose screenshot_index counts only
\* the URLs that contributed a result
process_multiple_screenshots_RankIndex(results) ==
    LET red == ReduceLoop(results, 1, None, 0, -1)
    IN IF red.best_overall # None
       THEN [character_name |-> red.best_overall.character_name,
             confidence |-> red.best_overall.confidence,
             url |-> red.best_overall.url,
             screenshot_index |->
                 Cardinality({i \in 1..red.best_index : results[i] # None})]
       ELSE None

\* process_multiple_screenshots after the gather: the best champion with its
\* screenshot_index, or None.
process_multiple_screenshots(results) ==
    LET red == ReduceLoop(results, 1, None, 0, -1)
    IN IF red.best_overall # None
       THEN [character_name |-> red.best_overall.character_name,
             confidence |-> red.best_overall.confidence,
             url |-> red.best_overall.url,
             screenshot_index |-> red.best_index]
       ELSE None


\* ===================================================================
\* the store (redis): SETEX replaces the entry of a key, INCR adds one
\* ===================================================================

\* f"result:{task_id}"
ResultKey(task_id) == <<"result", task_id>>

\* redis_client.setex(key, ttl, value): the entry of the key is replaced.
setex(entries, key, ttl, value) ==
    {e \in entries : e.key # key} \cup {[key |-> key, ttl |-> ttl, value |-> value]}

\* redis_client.incr(f"stats:<outcome>:<today>")
incr(counters, outcome) == [counters EXCEPT ![outcome] = @ + 1]

\* ===================================================================
\* worker.py process_task / tasks.py process_video_screenshots
\* ===================================================================

\* Variant of the success path that reports a selector result of None as a
\* failure
BuildResponse_NoneFails(task, res, at) ==
    IF res = None
    THEN [TaskId |-> task.task_id,
          VideoId |-> task.clip_id,
          Status |-> "failed",
          Detections |-> <<>>,
          BestOverall |-> None,
          UniqueCharacters |-> {},
          TotalScreenshots |-> Len(task.screenshot_urls),
          SuccessfulDetections |-> 0,
          CompletedAt |-> at,
          Error |-> Exception("no detection")]
    ELSE LET best_overall == [CharacterName |-> res.character_name,
                              Confidence |-> res.confidence,
                              ScreenshotIndex |-> res.screenshot_index,
                              ScreenshotUrl |-> res.url]
         IN [TaskId |-> task.task_id,
             VideoId |-> task.clip_id,
             Status |-> "completed",
             Detections |-> <<best_overall>>,
             BestOverall |-> best_overall,
             UniqueCharacters |-> {res.character_name},
             TotalScreenshots |-> Len(task.screenshot_urls),
             SuccessfulDetections |-> 1,
             CompletedAt |-> at,
             Error |-> None]

\* Variant of the success path that does not append best_overall to
\* detections_list
BuildResponse_NoAppend(task, res, at) ==
    LET best_overall ==
            IF res # None
            THEN [CharacterName |-> res.character_name,
                  Confidence |-> res.confidence,
                  ScreenshotIndex |-> res.screenshot_index,
                  ScreenshotUrl |-> res.url]
            ELSE None
    IN [TaskId |-> task.task_id,
        VideoId |-> task.clip_id,
        Status |-> "completed",
        Detections |-> <<>>,
        BestOverall |-> best_overall,
        UniqueCharacters |-> IF res # None THEN {res.character_name} ELSE {},
        TotalScreenshots |-> Len(task.screenshot_urls),
        SuccessfulDetections |-> IF res # None THEN 1 ELSE 0,
        CompletedAt |-> at,
        Error |-> None]

\* The response of the success path (the two entry points build the same).
BuildResponse(task, res, at) ==
    LET best_overall ==
            IF res # None
            THEN [CharacterName |-> res.character_name,
                  Confidence |-> res.confidence,
                  ScreenshotIndex |-> res.screenshot_index,
                  ScreenshotUrl |-> res.url]
            ELSE None
    IN [TaskId |-> task.task_id,
        VideoId |-> task.clip_id,
        Status |-> "completed",
        Detections |-> IF res # None THEN <<best_overall>> ELSE <<>>,
        BestOverall |-> best_overall,
        UniqueCharacters |-> IF res # None THEN {res.character_name} ELSE {},
        TotalScreenshots |-> Len(task.screenshot_urls),
        SuccessfulDetections |-> IF res # None THEN 1 ELSE 0,
        CompletedAt |-> at,
        Error |-> None]

\* The error_result of the except handler.
BuildErrorResult(task, e, at) ==
    [TaskId |-> task.task_id,
     VideoId |-> task.clip_id,
     Status |-> "failed",
     Detections |-> <<>>,
     BestOverall |-> None,
     UniqueCharacters |-> {},
     TotalScreenshots |-> Len(task.screenshot_urls),
     SuccessfulDetections |-> 0,
     CompletedAt |-> at,
     Error |-> e]

\* How the except handler leaves the entry point once error_result is stored
\* and counted: worker.py returns error_result, tasks.py re-raises.
HandlerExit(entry_point) == IF entry_point = "worker" THEN "returned" ELSE "raised"

VARIABLES
    min_confidence,       \* ApexDetector.min_confidence
    reference_portraits,  \* names of ApexDetector.reference_portraits, in order
    pc,                   \* position of the orchestrator
    entry,                \* the entry point processing the request
    task_data,            \* the request being processed
    results,              \* what each per-URL pipeline resolved to
    failed,               \* per URL: its pipeline ended in an error path
    fetches,              \* network fetches issued for the current request
    result,               \* what detector.process_screenshots returned
    error,                \* the exception caught by the except handler
    store,                \* result entries of the store
    stats,                \* the daily counters of the store
    stats0,               \* the counters when the processing began
    now,                  \* the clock; one tick per processing
    ops,                  \* store operations of this processing, with outcome
    ending,               \* how the entry point was left
    queue,                \* apex_detection_queue: the messages not yet popped
    handled,              \* the messages popped by the worker loop, in order
    wloop,                \* position of worker.py main
    wlast,                \* what the worker loop did last
    shots,                \* what each per-URL pipeline of the request will meet
    order,                \* the order in which the pipelines resolved
    call                  \* the last application of a detector function

vars == <<min_confidence, reference_portraits, pc, entry, task_data, results,
          failed, fetches, result, error, store, stats, stats0, now, ops, ending,
          queue, handled, wloop, wlast, shots, order, call>>

config == <<min_confidence, reference_portraits>>
request == <<entry, task_data>>
pipeline == <<results, failed, fetches>>

worker == <<queue, handled, wloop, wlast>>
interleaving == <<shots, order>>
aside == <<worker, interleaving, call>>

NoTask == [task_id |-> "", clip_id |-> "", screenshot_urls |-> <<>>]
NoCall == [fn |-> "none"]

\* No worker loop is running (the orchestrator is called directly).
WorkerOff ==
    /\ queue = <<>>
    /\ handled = <<>>
    /\ wloop = "off"
    /\ wlast = "none"

\* The per-URL outcomes are not fixed in advance.
InterleavingOff ==
    /\ shots = <<>>
    /\ order = <<>>

\* No request has been processed, the store is empty.
Idle ==
    /\ pc = "idle"
    /\ entry = "none"
    /\ task_data = NoTask
    /\ results = <<>>
    /\ failed = <<>>
    /\ fetches = 0
    /\ result = None
    /\ error = None
    /\ store = {}
    /\ stats = [completed |-> 0, failed |-> 0]
    /\ stats0 = [completed |-> 0, failed |-> 0]
    /\ now = 0
    /\ ops = <<>>
    /\ ending = "none"

Init ==
    /\ min_confidence \in MinConfidences
    /\ reference_portraits \in Libraries
    /\ WorkerOff
    /\ InterleavingOff
    /\ call = NoCall
    /\ Idle

\* A request reaches an entry point; the per-URL pipelines are created
\* (the list comprehension of process_multiple_screenshots).
Receive ==
    /\ pc \in {"idle", "done"}
    /\ now < MaxRuns
    /\ \E e \in Entries, t \in TaskIds, c \in ClipIds, urls \in UrlLists :
         /\ entry' = e
         /\ task_data' = [task_id |-> t, clip_id |-> c, screenshot_urls |-> urls]
         /\ results' = [i \in 1..Len(urls) |-> Pending]
         /\ failed' = [i \in 1..Len(urls) |-> FALSE]
    /\ fetches' = 0
    /\ pc' = "gather"
    /\ now' = now + 1
    /\ result' = None
    /\ error' = None
    /\ ops' = <<>>
    /\ ending' = "none"
    /\ stats0' = stats
    /\ UNCHANGED <<config, aside, store, stats>>

\* What one URL's pipeline meets: the outcome of the fetch, the size of the
\* decoded image and the similarity of its portrait to each reference.  The
\* size matters only after a fetch, the scores only after a crop.
NoScores == [c \in CharacterNames |-> 0]
ShotInputs ==
    {[fetch |-> f, size |-> <<0, 0>>, scores |-> NoScores] : f \in FetchOutcomes \ {"ok"}}
    \cup {[fetch |-> "ok", size |-> z, scores |-> NoScores] :
            z \in {y \in ImageSizes : PipelineFails("ok", y)}}
    \cup {[fetch |-> "ok", size |-> z, scores |-> sc] :
            z \in {y \in ImageSizes : ~PipelineFails("ok", y)},
            sc \in [CharacterNames -> Scores]}

\* Variant of the per-URL pipeline in which an empty reference library is an
\* error that escapes to the orchestrator
ResolveUrlAt_EmptyLibraryRaises(i) ==
    /\ pc = "gather"
    /\ i \in 1..Len(results)
    /\ results[i] = Pending
    /\ fetches' = fetches + 1
    /\ IF reference_portraits = <<>>
       THEN /\ error' = Exception("empty library")
            /\ results' = <<>>
            /\ failed' = <<>>
            /\ pc' = "except_setex"
       ELSE /\ \E shot \in ShotInputs :
                 /\ results' = [results EXCEPT ![i] =
                        process_screenshot_url(reference_portraits, min_confidence,
                                               task_data.screenshot_urls[i],
                                               shot.fetch, shot.size, shot.scores)]
                 /\ failed' = [failed EXCEPT ![i] = PipelineFails(shot.fetch, shot.size)]
            /\ UNCHANGED <<pc, error>>
    /\ UNCHANGED <<config, aside, request, result, store, stats, stats0, now, ops, ending>>

\* The pipeline of the i-th URL runs on what it meets: one fetch, then the
\* result or None in the i-th slot of the gathered results.
ResolveWith(i, shot) ==
    /\ pc = "gather"
    /\ i \in 1..Len(results)
    /\ results[i] = Pending
    /\ results' = [results EXCEPT ![i] =
           process_screenshot_url(reference_portraits, min_confidence,
                                  task_data.screenshot_urls[i],
                                  shot.fetch, shot.size, shot.scores)]
    /\ failed' = [failed EXCEPT ![i] = PipelineFails(shot.fetch, shot.size)]
    /\ fetches' = fetches + 1
    /\ UNCHANGED <<config, request, pc, result, error, store, stats, stats0, now, ops,
                   ending>>

\* The pipeline of the i-th URL runs: one fetch, then the result or None.
ResolveUrlAt(i) ==
    /\ \E shot \in ShotInputs : ResolveWith(i, shot)
    /\ UNCHANGED aside

\* One per-URL pipeline resolves, in any order.
ResolveUrl == \E i \in 1..MaxUrls : ResolveUrlAt(i)

\* Variant of the reduction that starts as soon as one pipeline has resolved
\* and takes the unresolved ones as contributing nothing
Reduce_FirstCompleted ==
    /\ pc = "gather"
    /\ \/ results = <<>>
       \/ \E i \in 1..Len(results) : results[i] # Pending
    /\ result' = process_multiple_screenshots(
                     [i \in 1..Len(results) |->
                         IF results[i] = Pending THEN None ELSE results[i]])
    /\ pc' = "reduced"
    /\ UNCHANGED <<config, aside, request, pipeline, error, store, stats, stats0, now, ops, ending>>

\* Variant of the reduction that fails on an empty list of results
Reduce_EmptyRaises ==
    /\ pc = "gather"
    /\ \A i \in 1..Len(results) : results[i] # Pending
    /\ IF results = <<>>
       THEN /\ error' = Exception("empty sequence")
            /\ pc' = "except_setex"
            /\ result' = result
       ELSE /\ result' = process_multiple_screenshots(results)
            /\ pc' = "reduced"
            /\ error' = error
    /\ UNCHANGED <<config, aside, request, pipeline, store, stats, stats0, now, ops, ending>>

\* The gather is complete: the reduction over the results.
Reduce ==
    /\ pc = "gather"
    /\ \A i \in 1..Len(results) : results[i] # Pending
    /\ result' = process_multiple_screenshots(results)
    /\ pc' = "reduced"
    /\ UNCHANGED <<config, aside, request, pipeline, error, store, stats, stats0, now, ops, ending>>

\* process_screenshots returns the best match to the orchestrator; the
\* gathered results are gone with the detector's frame.
Return ==
    /\ pc = "reduced"
    /\ results' = <<>>
    /\ failed' = <<>>
    /\ fetches' = fetches
    /\ pc' = "try_setex"
    /\ UNCHANGED <<config, aside, request, result, error, store, stats, stats0, now, ops, ending>>

\* An exception escapes detector.process_screenshots.
DetectorRaises ==
    /\ pc = "gather"
    /\ error' = Exception("detector")
    /\ results' = <<>>
    /\ failed' = <<>>
    /\ fetches' = fetches
    /\ pc' = "except_setex"
    /\ UNCHANGED <<config, aside, request, result, store, stats, stats0, now, ops, ending>>

\* Variant of the try block's setex that writes only when the key is absent
TrySetex_IfAbsent(ok) ==
    /\ pc = "try_setex"
    /\ ops' = Append(ops, [op |-> "setex", status |-> "completed", ok |-> ok])
    /\ IF ok
       THEN /\ store' = IF \E e \in store : e.key = ResultKey(task_data.task_id)
                        THEN store
                        ELSE setex(store, ResultKey(task_data.task_id), TtlCompleted,
                                   BuildResponse(task_data, result, now))
            /\ pc' = "try_incr"
            /\ error' = error
       ELSE /\ store' = store
            /\ pc' = "except_setex"
            /\ error' = Exception("store")
    /\ UNCHANGED <<config, aside, request, pipeline, result, stats, stats0, now, ending>>

\* try: redis_client.setex(result:<task_id>, 604800, response)
TrySetex(ok) ==
    /\ pc = "try_setex"
    /\ ops' = Append(ops, [op |-> "setex", status |-> "completed", ok |-> ok])
    /\ IF ok
       THEN /\ store' = setex(store, ResultKey(task_data.task_id), TtlCompleted,
                              BuildResponse(task_data, result, now))
            /\ pc' = "try_incr"
            /\ error' = error
       ELSE /\ store' = store
            /\ pc' = "except_setex"
            /\ error' = Exception("store")
    /\ UNCHANGED <<config, aside, request, pipeline, result, stats, stats0, now, ending>>

\* try: redis_client.incr(stats:completed:<today>); return response
TryIncr(ok) ==
    /\ pc = "try_incr"
    /\ ops' = Append(ops, [op |-> "incr", status |-> "completed", ok |-> ok])
    /\ IF ok
       THEN /\ stats' = incr(stats, "completed")
            /\ pc' = "done"
            /\ ending' = "returned"
            /\ error' = error
       ELSE /\ stats' = stats
            /\ pc' = "except_setex"
            /\ ending' = ending
            /\ error' = Exception("store")
    /\ UNCHANGED <<config, aside, request, pipeline, result, store, stats0, now>>

\* Variant of the handler's setex that swallows a store failure and leaves
\* the entry point as after a stored error_result
ExceptSetex_Swallow(ok) ==
    /\ pc = "except_setex"
    /\ ops' = Append(ops, [op |-> "setex", status |-> "failed", ok |-> ok])
    /\ IF ok
       THEN /\ store' = setex(store, ResultKey(task_data.task_id), TtlFailed,
                              BuildErrorResult(task_data, error, now))
            /\ pc' = "except_incr"
            /\ ending' = ending
       ELSE /\ store' = store
            /\ pc' = "done"
            /\ ending' = "returned"
    /\ UNCHANGED <<config, aside, request, pipeline, result, error, stats, stats0, now>>

\* except: redis_client.setex(result:<task_id>, 86400, error_result)
ExceptSetex(ok) ==
    /\ pc = "except_setex"
    /\ ops' = Append(ops, [op |-> "setex", status |-> "failed", ok |-> ok])
    /\ IF ok
       THEN /\ store' = setex(store, ResultKey(task_data.task_id), TtlFailed,
                              BuildErrorResult(task_data, error, now))
            /\ pc' = "except_incr"
            /\ ending' = ending
       ELSE /\ store' = store
            /\ pc' = "done"
            /\ ending' = "raised"
    /\ UNCHANGED <<config, aside, request, pipeline, result, error, stats, stats0, now>>

\* except: redis_client.incr(stats:failed:<today>); then return or raise
ExceptIncr(ok) ==
    /\ pc = "except_incr"
    /\ ops' = Append(ops, [op |-> "incr", status |-> "failed", ok |-> ok])
    /\ IF ok
       THEN /\ stats' = incr(stats, "failed")
            /\ ending' = HandlerExit(entry)
       ELSE /\ stats' = stats
            /\ ending' = "raised"
    /\ pc' = "done"
    /\ UNCHANGED <<config, aside, request, pipeline, result, error, store, stats0, now>>

Detect == ResolveUrl \/ Reduce \/ Return \/ DetectorRaises

\* Every store operation may succeed or raise.
Next ==
    \/ Receive
    \/ Detect
    \/ \E ok \in BOOLEAN : TrySetex(ok)
    \/ \E ok \in BOOLEAN : TryIncr(ok)
    \/ \E ok \in BOOLEAN : ExceptSetex(ok)
    \/ \E ok \in BOOLEAN : ExceptIncr(ok)

Spec == Init /\ [][Next]_vars

\* ===================================================================
\* worker.py main
\* ===================================================================

Front(s) == SubSeq(s, 1, Len(s) - 1)

\* The messages waiting when the worker starts, the oldest at the right end
InitialQueue == [i \in 1..MaxQueue |-> MaxQueue + 1 - i]

\* The worker starts polling with MaxQueue messages waiting, under the
\* default configuration.
InitWorker ==
    /\ min_confidence = DefaultMinConfidence
    /\ reference_portraits \in Libraries \ {<<>>}
    /\ queue = InitialQueue
    /\ handled = <<>>
    /\ wloop = "polling"
    /\ wlast = "start"
    /\ InterleavingOff
    /\ call = NoCall
    /\ Idle

\* brpop returns None after its timeout: nothing to do, poll again.
PollTimeout ==
    /\ wloop = "polling"
    /\ queue = <<>>
    /\ wlast' = "timeout"
    /\ UNCHANGED <<config, request, pipeline, pc, result, error, store, stats, stats0,
                   now, ops, ending, queue, handled, wloop, interleaving, call>>

\* brpop raises (store unreachable): except Exception logs, sleeps, polls on.
PollFails ==
    /\ wloop = "polling"
    /\ wlast' = "error"
    /\ UNCHANGED <<config, request, pipeline, pc, result, error, store, stats, stats0,
                   now, ops, ending, queue, handled, wloop, interleaving, call>>

\* brpop pops the message at the right end.  A message that is not JSON
\* makes json.loads raise, one without task_id, clip_id or screenshot_urls
\* makes process_task raise before its try: except Exception logs, sleeps,
\* polls on.
DequeueBad ==
    /\ wloop = "polling"
    /\ queue # <<>>
    /\ queue' = Front(queue)
    /\ handled' = Append(handled, queue[Len(queue)])
    /\ wlast' = "error"
    /\ UNCHANGED <<config, request, pipeline, pc, result, error, store, stats, stats0,
                   now, ops, ending, wloop, interleaving, call>>

\* brpop pops the message at the right end and process_task begins on it.
DequeueTask ==
    /\ wloop = "polling"
    /\ queue # <<>>
    /\ queue' = Front(queue)
    /\ handled' = Append(handled, queue[Len(queue)])
    /\ wloop' = "processing"
    /\ wlast' = "task"
    /\ \E t \in TaskIds, c \in ClipIds, urls \in UrlLists :
         /\ task_data' = [task_id |-> t, clip_id |-> c, screenshot_urls |-> urls]
         /\ results' = [i \in 1..Len(urls) |-> Pending]
         /\ failed' = [i \in 1..Len(urls) |-> FALSE]
    /\ entry' = "worker"
    /\ fetches' = 0
    /\ pc' = "gather"
    /\ now' = now + 1
    /\ result' = None
    /\ error' = None
    /\ ops' = <<>>
    /\ ending' = "none"
    /\ stats0' = stats
    /\ UNCHANGED <<config, store, stats, interleaving, call>>

\* Variant of the loop's return from process_task that pushes the message
\* back onto the queue when process_task raised
TaskEnds_Requeue ==
    /\ wloop = "processing"
    /\ pc = "done"
    /\ pc' = "idle"
    /\ wloop' = "polling"
    /\ wlast' = IF ending = "returned" THEN "ok" ELSE "error"
    /\ queue' = IF ending = "returned" THEN queue
                ELSE <<handled[Len(handled)]>> \o queue
    /\ UNCHANGED <<config, request, pipeline, result, error, store, stats, stats0,
                   now, ops, ending, handled, interleaving, call>>

\* process_task is left: after a return the loop polls again; after an
\* exception except Exception logs, sleeps, and the loop polls again.
TaskEnds ==
    /\ wloop = "processing"
    /\ pc = "done"
    /\ pc' = "idle"
    /\ wloop' = "polling"
    /\ wlast' = IF ending = "returned" THEN "ok" ELSE "error"
    /\ UNCHANGED <<config, request, pipeline, result, error, store, stats, stats0,
                   now, ops, ending, queue, handled, interleaving, call>>

\* KeyboardInterrupt.  While polling, except KeyboardInterrupt breaks the
\* loop.  Inside process_task it is no Exception: it passes the except
\* handler of process_task, leaves the task where it is and breaks the loop.
Interrupt ==
    /\ wloop \in {"polling", "processing"}
    /\ wloop' = "stopped"
    /\ wlast' = "interrupt"
    /\ UNCHANGED <<config, request, pipeline, pc, result, error, store, stats, stats0,
                   now, ops, ending, queue, handled, interleaving, call>>

\* A step of process_task under the worker loop
TaskStep ==
    /\ wloop = "processing"
    /\ \/ Detect
       \/ \E ok \in BOOLEAN : TrySetex(ok)
       \/ \E ok \in BOOLEAN : TryIncr(ok)
       \/ \E ok \in BOOLEAN : ExceptSetex(ok)
       \/ \E ok \in BOOLEAN : ExceptIncr(ok)

NextWorker ==
    \/ PollTimeout
    \/ PollFails
    \/ DequeueBad
    \/ DequeueTask
    \/ TaskStep
    \/ TaskEnds
    \/ Interrupt

SpecWorker == InitWorker /\ [][NextWorker]_vars

\* The store is reachable: no store operation raises.
NextStoreUp ==
    \/ Receive
    \/ Detect
    \/ TrySetex(TRUE)
    \/ TryIncr(TRUE)
    \/ ExceptSetex(TRUE)
    \/ ExceptIncr(TRUE)

SpecStoreUp == Init /\ [][NextStoreUp]_vars

\* ===================================================================
\* detector.py: process_screenshot_url applied on its own
\* ===================================================================

\* MIN_CONFIDENCE is read from the environment: any float
ChampionFloors == {-10, 0, DefaultMinConfidence}
\* Non-empty reference libraries, in the dictionary's order
ChampionLibraries == {<<"wraith">>, <<"wraith", "bangalore">>, <<"bangalore", "wraith">>}

InitChampion ==
    /\ min_confidence \in ChampionFloors
    /\ reference_portraits \in ChampionLibraries
    /\ WorkerOff
    /\ InterleavingOff
    /\ call = NoCall
    /\ Idle

\* process_screenshot_url runs on one URL and returns.
ApplyChampion ==
    /\ \E shot \in ShotInputs :
         call' = [fn |-> "process_screenshot_url",
                  shot |-> shot,
                  ret |-> process_screenshot_url(reference_portraits, min_confidence,
                                                 Url(1), shot.fetch, shot.size,
                                                 shot.scores)]
    /\ UNCHANGED <<config, request, pipeline, pc, result, error, store, stats, stats0,
                   now, ops, ending, worker, interleaving>>

NextChampion == ApplyChampion

SpecChampion == InitChampion /\ [][NextChampion]_vars

\* ===================================================================
\* detector.py: process_multiple_screenshots under every completion order
\* ===================================================================

\* What the pipelines of one call meet, fixed before they run: a timeout, or
\* a 1920x1080 screenshot with scores below and above the default floor.
InterleaveShots ==
    {s \in ShotInputs :
        \/ s.fetch = "timeout"
        \/ /\ s.fetch = "ok"
           /\ s.size = <<target_width, target_height>>
           /\ \A c \in CharacterNames : s.scores[c] \in {30, 60}}

InitInterleave ==
    /\ min_confidence = DefaultMinConfidence
    /\ reference_portraits \in Libraries \ {<<>>}
    /\ WorkerOff
    /\ InterleavingOff
    /\ call = NoCall
    /\ Idle

\* process_multiple_screenshots is called: one pipeline per URL is created
\* and handed to gather; what each will meet is fixed here.
Launch ==
    /\ pc = "idle"
    /\ now = 0
    /\ \E t \in TaskIds, c \in ClipIds, urls \in UrlLists :
         /\ entry' = "worker"
         /\ task_data' = [task_id |-> t, clip_id |-> c, screenshot_urls |-> urls]
         /\ results' = [i \in 1..Len(urls) |-> Pending]
         /\ failed' = [i \in 1..Len(urls) |-> FALSE]
         /\ shots' \in [1..Len(urls) -> InterleaveShots]
    /\ order' = <<>>
    /\ fetches' = 0
    /\ pc' = "gather"
    /\ now' = now + 1
    /\ result' = None
    /\ error' = None
    /\ ops' = <<>>
    /\ ending' = "none"
    /\ stats0' = stats
    /\ UNCHANGED <<config, worker, call, store, stats>>

\* Variant of the gather that collects the results in completion order
ResolveShotAt_CompletionOrder(i) ==
    /\ pc = "gather"
    /\ i \in 1..Len(results)
    /\ \A k \in 1..Len(order) : order[k] # i
    /\ results' = [results EXCEPT ![Len(order) + 1] =
           process_screenshot_url(reference_portraits, min_confidence,
                                  task_data.screenshot_urls[i],
                                  shots[i].fetch, shots[i].size, shots[i].scores)]
    /\ failed' = [failed EXCEPT ![Len(order) + 1] =
                     PipelineFails(shots[i].fetch, shots[i].size)]
    /\ fetches' = fetches + 1
    /\ order' = Append(order, i)
    /\ UNCHANGED <<config, request, pc, result, error, store, stats, stats0, now, ops,
                   ending, worker, shots, call>>

\* The pipeline of the i-th URL completes, at any moment of the gather; its
\* result goes to the i-th slot.
ResolveShotAt(i) ==
    /\ ResolveWith(i, shots[i])
    /\ order' = Append(order, i)
    /\ UNCHANGED <<worker, shots, call>>

ResolveShot == \E i \in 1..MaxUrls : ResolveShotAt(i)

NextInterleave ==
    \/ Launch
    \/ ResolveShot
    \/ Reduce

SpecInterleave == InitInterleave /\ [][NextInterleave]_vars

\* ===================================================================
\* detector.py: resize_to_1080p applied on its own
\* ===================================================================

InitResize ==
    /\ min_confidence = DefaultMinConfidence
    /\ reference_portraits \in Libraries \ {<<>>}
    /\ WorkerOff
    /\ InterleavingOff
    /\ call = NoCall
    /\ Idle

\* resize_to_1080p runs on one image and returns or raises.
ApplyResize ==
    /\ \E z \in ResizeSizes :
         call' = [fn |-> "resize_to_1080p",
                  image |-> [width |-> z[1], height |-> z[2]],
                  ret |-> Resized[z[1]][z[2]]]
    /\ UNCHANGED <<config, request, pipeline, pc, result, error, store, stats, stats0,
                   now, ops, ending, worker, interleaving>>

NextResize == ApplyResize

SpecResize == InitResize /\ [][NextResize]_vars


\* ===================================================================
\* Properties
\* ===================================================================

\* The entries the store holds under result:<task_id> of the current request
CurrentEntries == {e \in store : e.key = ResultKey(task_data.task_id)}

\* The number of store operations of this processing that wrote result:<task_id>
Writes == Cardinality({i \in 1..Len(ops) : ops[i].op = "setex" /\ ops[i].ok})

\* The Match Selector returned normally: the try block reached its setex.
SelectorReturned == ops # <<>> /\ ops[1].status = "completed"

\* Every store operation of this processing failed (and one was attempted).
StoreUnreachable == ops # <<>> /\ \A i \in 1..Len(ops) : ~ops[i].ok

\* C1: one processing of a request performs exactly one write to
\* result:<task_id>, whatever the detection call and the store operations do:
\* never zero writes and never two.
C1_ExactlyOneWrite == pc = "done" => Writes = 1

\* C2: when the Match Selector returns normally with no detection, the task
\* ends completed: the persisted record has Status completed and Error null,
\* the completed counter is incremented and the failed counter is unchanged.
C2_NoDetectionIsCompleted ==
    (pc = "done" /\ SelectorReturned /\ result = None) =>
        /\ \E e \in CurrentEntries :
             /\ e.value.Status = "completed"
             /\ e.value.Error = None
             /\ e.value.CompletedAt = now
        /\ \A e \in CurrentEntries : e.value.Status # "failed"
        /\ stats.completed = stats0.completed + 1
        /\ stats.failed = stats0.failed

C2_Witness ==
    /\ pc = "done"
    /\ SelectorReturned
    /\ result = None
    /\ Len(task_data.screenshot_urls) >= 2
    /\ \E e \in CurrentEntries : e.value.Status = "completed" /\ e.value.CompletedAt = now
    /\ stats.completed = stats0.completed + 1

\* C3: when an exception escapes the Match Selector call and the store is
\* reachable, a failed record with a non-null Error is persisted, the failed
\* counter is incremented and the entry point ends in an error, in worker.py
\* as in tasks.py.
C3_DetectorFailureResignalled ==
    (pc = "done" /\ error = Exception("detector")) =>
        /\ \E e \in CurrentEntries :
             /\ e.value.Status = "failed"
             /\ e.value.Error # None
             /\ e.value.CompletedAt = now
        /\ stats.failed = stats0.failed + 1
        /\ ending = "raised"

C5_BestDetectionsCountAgree ==
    \A e \in store :
        LET r == e.value
        IN /\ (r.BestOverall = None) <=> (r.Detections = <<>>)
           /\ (r.Detections = <<>>) <=> (r.SuccessfulDetections = 0)
           /\ r.BestOverall # None =>
                /\ r.Detections = <<r.BestOverall>>
                /\ r.SuccessfulDetections = 1

C5_Witness ==
    \E e \in store :
        /\ e.value.Status = "completed"
        /\ e.value.BestOverall # None
        /\ e.value.Detections = <<e.value.BestOverall>>

\* C6: a persisted BestOverall has Confidence >= MIN_CONFIDENCE.
C6_BestAboveFloor ==
    \A e \in store :
        e.value.BestOverall # None => e.value.BestOverall.Confidence >= min_confidence

C6_Witness ==
    /\ min_confidence = DefaultMinConfidence
    /\ \E e \in store :
         /\ e.value.BestOverall # None
         /\ e.value.TotalScreenshots >= 2
         /\ e.value.BestOverall.Confidence >= min_confidence

\* The positions whose pipeline did not fail, in input order
RECURSIVE KeptFrom(_)
KeptFrom(i) ==
    IF i > Len(failed) THEN <<>>
    ELSE IF failed[i] THEN KeptFrom(i + 1) ELSE <<i>> \o KeptFrom(i + 1)

\* What the non-failed URLs alone would produce, the index being the
\* position in the original request
BestOfNonFailed ==
    LET kept == KeptFrom(1)
        alone == process_multiple_screenshots([k \in 1..Len(kept) |-> results[kept[k]]])
    IN IF alone = None THEN None
       ELSE [alone EXCEPT !.screenshot_index = kept[alone.screenshot_index + 1] - 1]

\* C7: a URL whose pipeline fails contributes nothing, the best match is the
\* one the non-failed URLs alone produce, no task-level failure is raised and
\* the task reaches completed.
C7_UrlFailuresIsolated ==
    /\ pc \in {"gather", "reduced"} =>
         \A i \in 1..Len(failed) : failed[i] => results[i] = None
    /\ pc = "reduced" => result = BestOfNonFailed
    /\ (pc = "done" /\ SelectorReturned) =>
         /\ error = None
         /\ ending = "returned"
         /\ \E e \in CurrentEntries :
              /\ e.value.Status = "completed"
              /\ e.value.CompletedAt = now
              /\ e.value = BuildResponse(task_data, result, now)

C7_Witness ==
    /\ pc = "reduced"
    /\ Len(failed) >= 2
    /\ failed[1]
    /\ ~failed[2]
    /\ result # None
    /\ result.screenshot_index = 1

\* C8: the reduction returns the champion of highest confidence among the
\* contributing URLs, the lowest index among those sharing the top.
C8_HighestFirstSeen ==
    pc = "reduced" =>
        /\ (result = None) <=> (\A i \in 1..Len(results) : results[i] = None)
        /\ result # None =>
             LET k == result.screenshot_index + 1
             IN /\ k \in 1..Len(results)
                /\ results[k] # None
                /\ results[k].character_name = result.character_name
                /\ results[k].confidence = result.confidence
                /\ results[k].url = result.url
                /\ \A i \in 1..Len(results) :
                     results[i] # None => results[i].confidence <= result.confidence
                /\ \A i \in 1..(k - 1) :
                     results[i] # None => results[i].confidence < result.confidence

C8_Witness ==
    /\ pc = "reduced"
    /\ result # None
    /\ result.screenshot_index = 0
    /\ Len(results) >= 2
    /\ results[2] # None
    /\ results[2].confidence = result.confidence
    /\ results[2].character_name # result.character_name

\* C9: screenshot_index is the position in the original input: the persisted
\* BestOverall has ScreenshotUrl = screenshot_urls[ScreenshotIndex] and
\* 0 <= ScreenshotIndex < TotalScreenshots.
C9_IndexIsInputPosition ==
    /\ \A e \in store :
         e.value.BestOverall # None =>
            /\ 0 <= e.value.BestOverall.ScreenshotIndex
            /\ e.value.BestOverall.ScreenshotIndex < e.value.TotalScreenshots
    /\ \A e \in CurrentEntries :
         (e.value.CompletedAt = now /\ e.value.BestOverall # None) =>
            e.value.BestOverall.ScreenshotUrl =
                task_data.screenshot_urls[e.value.BestOverall.ScreenshotIndex + 1]

C9_Witness ==
    \E e \in CurrentEntries :
        /\ e.value.CompletedAt = now
        /\ e.value.BestOverall # None
        /\ e.value.BestOverall.ScreenshotIndex = 1
        /\ e.value.BestOverall.ScreenshotUrl = task_data.screenshot_urls[2]

\* C10: re-processing the same task_id overwrites: the store never holds two
\* records under result:<task_id>, and after a processing that wrote, the one
\* record is that of the most recent processing.
C10_ReprocessOverwrites ==
    /\ \A e1, e2 \in store : e1.key = e2.key => e1 = e2
    /\ (pc = "done" /\ Writes > 0) =>
         /\ Cardinality(CurrentEntries) = 1
         /\ \A e \in CurrentEntries : e.value.CompletedAt = now

C10_Witness ==
    /\ pc = "done"
    /\ now >= 2
    /\ Writes > 0
    /\ Cardinality(CurrentEntries) = 1
    /\ \A e \in CurrentEntries : e.value.CompletedAt = now

\* The successful increments of a counter by this processing
Increments(outcome) ==
    Cardinality({i \in 1..Len(ops) :
                    ops[i].op = "incr" /\ ops[i].status = outcome /\ ops[i].ok})

\* C11: when the orchestrator is left, whatever the store operations did, the
\* record under result:<task_id> and the counters agree: a completed record
\* has TTL 604800 and goes with one increment of stats:completed and none of
\* stats:failed; a failed record has TTL 86400 and goes with one increment of
\* stats:failed and none of stats:completed.
C11_RecordAndCountersAgree ==
    pc = "done" =>
        \A e \in CurrentEntries :
            /\ e.value.Status = "completed" =>
                 /\ e.ttl = TtlCompleted
                 /\ Increments("completed") = 1
                 /\ Increments("failed") = 0
                 /\ stats = [stats0 EXCEPT !.completed = @ + 1]
            /\ e.value.Status = "failed" =>
                 /\ e.ttl = TtlFailed
                 /\ Increments("failed") = 1
                 /\ Increments("completed") = 0
                 /\ stats = [stats0 EXCEPT !.failed = @ + 1]

\* No systemic exception escaped detector.process_screenshots
NoSystemicFailure == error # Exception("detector")

\* C12: a request with no screenshot URL ends completed with
\* TotalScreenshots 0, SuccessfulDetections 0, no Detections and BestOverall
\* null, and no network fetch is issued.
C12_EmptyRequestCompletes ==
    /\ task_data.screenshot_urls = <<>> => fetches = 0
    /\ (pc = "done" /\ task_data.screenshot_urls = <<>> /\ NoSystemicFailure) =>
         /\ ending = "returned"
         /\ Cardinality(CurrentEntries) = 1
         /\ \A e \in CurrentEntries :
              /\ e.value.Status = "completed"
              /\ e.value.CompletedAt = now
              /\ e.value.TotalScreenshots = 0
              /\ e.value.SuccessfulDetections = 0
              /\ e.value.Detections = <<>>
              /\ e.value.BestOverall = None

C12_Witness ==
    /\ pc = "done"
    /\ task_data.screenshot_urls = <<>>
    /\ fetches = 0
    /\ \E e \in CurrentEntries :
         /\ e.value.Status = "completed"
         /\ e.value.CompletedAt = now
         /\ e.value.TotalScreenshots = 0

\* C13: with no reference portrait loaded, every request, whatever its
\* screenshots and their fetches, ends completed with BestOverall null and
\* SuccessfulDetections 0, never failed.
C13_EmptyLibraryCompletes ==
    (pc = "done" /\ reference_portraits = <<>> /\ NoSystemicFailure) =>
        /\ ending = "returned"
        /\ Cardinality(CurrentEntries) = 1
        /\ \A e \in CurrentEntries :
             /\ e.value.Status = "completed"
             /\ e.value.CompletedAt = now
             /\ e.value.BestOverall = None
             /\ e.value.SuccessfulDetections = 0
             /\ e.value.Detections = <<>>

C13_Witness ==
    /\ pc = "done"
    /\ reference_portraits = <<>>
    /\ min_confidence = 0
    /\ fetches = 2
    /\ \E e \in CurrentEntries :
         /\ e.value.Status = "completed"
         /\ e.value.CompletedAt = now
         /\ e.value.TotalScreenshots = 2
         /\ e.value.BestOverall = None

\* C15: within one task a pipeline is launched for every URL, the reduction
\* starts only when every pipeline has resolved, and a pipeline that failed
\* leaves every unresolved pipeline able to complete.
C15_AllLaunchedAllAwaited ==
    /\ pc \in {"gather", "reduced"} =>
         /\ Len(results) = Len(task_data.screenshot_urls)
         /\ fetches = Cardinality({i \in 1..Len(results) : results[i] # Pending})
    /\ pc = "reduced" =>
         /\ \A i \in 1..Len(results) : results[i] # Pending
         /\ fetches = Len(task_data.screenshot_urls)
    /\ pc = "gather" =>
         \A i \in 1..Len(results) : results[i] = Pending => ENABLED ResolveUrlAt(i)

C15_Witness ==
    /\ pc = "gather"
    /\ Len(results) = 2
    /\ failed[1]
    /\ results[1] = None
    /\ results[2] = Pending
    /\ ENABLED ResolveUrlAt(2)

\* Every store operation of this processing succeeded
StoreAnswered == \A i \in 1..Len(ops) : ops[i].ok

\* C14: the worker loop shuts down on an interrupt only between tasks: when
\* the loop has exited, the task dequeued last has its terminal record under
\* result:<task_id> (the store answering).
C14_InterruptBetweenTasks ==
    (wloop = "stopped" /\ now > 0 /\ StoreAnswered) =>
        \E e \in CurrentEntries :
            /\ e.value.CompletedAt = now
            /\ e.value.Status \in {"completed", "failed"}

\* The messages 1..n, the oldest first
FirstMessages(n) == [i \in 1..n |-> i]

\* C18: a message popped from the queue is processed at most once and never
\* pushed back, whether process_task returns or raises, and after an error
\* the loop keeps polling: only an interrupt stops it.
C18_PoppedOnceLoopGoesOn ==
    /\ wloop # "off" =>
         /\ handled \o [i \in 1..Len(queue) |-> queue[Len(queue) + 1 - i]]
                = FirstMessages(MaxQueue)
         /\ now <= Len(handled)
    /\ wlast = "error" => wloop = "polling"
    /\ wloop = "stopped" => wlast = "interrupt"

C18_Witness ==
    /\ wloop = "polling"
    /\ wlast = "error"
    /\ ending = "raised"
    /\ pc = "idle"
    /\ handled = <<1>>
    /\ queue = Front(InitialQueue)

\* The highest of the scores of the references refs
TopScore(refs, scores) ==
    CHOOSE t \in {scores[refs[i]] : i \in 1..Len(refs)} :
        \A i \in 1..Len(refs) : scores[refs[i]] <= t

\* C16: a URL whose image was acquired and cropped contributes a result if
\* and only if its highest score over the references is at least the floor,
\* and the contributed character is the reference with that score, for every
\* floor and score including zero and negative ones.
C16_ContributesIffTopAtLeastFloor ==
    (/\ call.fn = "process_screenshot_url"
     /\ ~PipelineFails(call.shot.fetch, call.shot.size)) =>
        LET top == TopScore(reference_portraits, call.shot.scores)
        IN /\ call.ret # None <=> top >= min_confidence
           /\ call.ret # None =>
                /\ call.ret.confidence = top
                /\ call.shot.scores[call.ret.character_name] = top

\* The per-URL results of the current call in the order of the URLs
InUrlOrder ==
    [i \in 1..Len(shots) |->
        process_screenshot_url(reference_portraits, min_confidence,
                               task_data.screenshot_urls[i],
                               shots[i].fetch, shots[i].size, shots[i].scores)]

\* The positions of the URLs whose result has the highest confidence
TopPositions ==
    {i \in 1..Len(shots) :
        /\ InUrlOrder[i] # None
        /\ \A j \in 1..Len(shots) :
             InUrlOrder[j] # None => InUrlOrder[j].confidence <= InUrlOrder[i].confidence}

\* C17: the best match of process_multiple_screenshots is fixed by the
\* per-URL outcomes alone: whatever the order in which the pipelines
\* complete, it is the first URL (in the order of the request) among those of
\* highest confidence, with its character, confidence, url and index.
C17_CompletionOrderIrrelevant ==
    pc = "reduced" =>
        /\ Len(order) = Len(shots)
        /\ IF TopPositions = {}
           THEN result = None
           ELSE LET w == CHOOSE i \in TopPositions : \A j \in TopPositions : i <= j
                IN result = [character_name |-> InUrlOrder[w].character_name,
                             confidence |-> InUrlOrder[w].confidence,
                             url |-> task_data.screenshot_urls[w],
                             screenshot_index |-> w - 1]

C17_Witness ==
    /\ pc = "reduced"
    /\ order = <<2, 1>>
    /\ TopPositions = {1, 2}
    /\ result # None
    /\ result.screenshot_index = 0

\* C19: resize_to_1080p returns the image unchanged when it is within
\* 1920x1080; otherwise it returns an image within 1920x1080, no side larger
\* than the input's, both sides being the input's multiplied by the one
\* factor min(1080/height, 1920/width) and truncated.
C19_ResizeScalesByOneFactor ==
    call.fn = "resize_to_1080p" =>
        LET width == call.image.width
            height == call.image.height
        IN IF width <= target_width /\ height <= target_height
           THEN call.ret = call.image
           ELSE /\ ~IsException(call.ret)
                /\ call.ret.width <= target_width
                /\ call.ret.height <= target_height
                /\ call.ret.width <= width
                /\ call.ret.height <= height
                /\ IF target_height * width <= target_width * height
                   THEN /\ call.ret.width = (width * target_height) \div height
                        /\ call.ret.height = target_height
                   ELSE /\ call.ret.width = target_width
                        /\ call.ret.height = (height * target_width) \div width

====
